---- MODULE Spec2Model ----
(***************************************************************************)
(* A model of slurm_plot.processor.SlurmDataProcessor: process_data        *)
(* (enrichment of the raw job records followed by the aggregation into     *)
(* time buckets) and calculate_summary_stats; and of slurm_plot.cli.main,  *)
(* the invocation that fetches, processes and renders.                     *)
(*                                                                         *)
(* Representation of the pandas values:                                    *)
(*   - a timestamp (datetime64) is <<t>>, t in seconds since the epoch;    *)
(*     NaT is <<>>.  The raw Submit/Start/End columns are datetime64: the  *)
(*     `.dt` accessor of lines 112 and 116 accepts nothing else;           *)
(*   - a number (float64/int64) is an exact rational <<n, d>> in lowest    *)
(*     terms with d > 0; NaN is <<0, 0>>.  Floating point rounding is not  *)
(*     modelled;                                                           *)
(*   - a DataFrame is a sequence of rows; an aggregated table is a         *)
(*     sequence of [index, cols] with cols a function from the column      *)
(*     names to numbers.                                                   *)
(***************************************************************************)
EXTENDS Integers, Sequences, FiniteSets, TLC

VARIABLES raw, last_interval, enriched, returned, stats, cli, filtered

vars == <<raw, last_interval, enriched, returned, stats, cli, filtered>>

----------------------------------------------------------------------------
(* Program constants *)

SecondsPerHour == 3600
SecondsPerDay == 86400
DaysPerWeek == 7
\* 1970-01-01 is a Thursday: weekday 3 when Monday is 0 (periods 'W' are
\* W-SUN, they start on Monday)
EpochWeekday == 3

(* Bounds of the model *)

MaxJobs == 3

----------------------------------------------------------------------------
(* Numbers *)

Abs(x) == IF x < 0 THEN -x ELSE x

RECURSIVE GCD(_, _)
GCD(a, b) == IF b = 0 THEN a ELSE GCD(b, a % b)

NaN == <<0, 0>>

IsNaN(x) == x[2] = 0

\* the rational n/d (d # 0) in lowest terms with a positive denominator
Rat(n, d) ==
    LET g == GCD(Abs(n), Abs(d))
        s == IF d < 0 THEN -1 ELSE 1
    IN  <<(s * n) \div g, (s * d) \div g>>

Num(n) == <<n, 1>>

Zero == Num(0)

One == Num(1)

RAdd(a, b) ==
    IF IsNaN(a) \/ IsNaN(b) THEN NaN
    ELSE Rat(a[1] * b[2] + b[1] * a[2], a[2] * b[2])

RMul(a, b) ==
    IF IsNaN(a) \/ IsNaN(b) THEN NaN
    ELSE Rat(a[1] * b[1], a[2] * b[2])

\* a / b for b # 0
RDiv(a, b) ==
    IF IsNaN(a) \/ IsNaN(b) THEN NaN
    ELSE Rat(a[1] * b[2], a[2] * b[1])

\* comparisons: any comparison with NaN is false, as in numpy
RLess(a, b) == ~IsNaN(a) /\ ~IsNaN(b) /\ a[1] * b[2] < b[1] * a[2]

RLeq(a, b) == ~IsNaN(a) /\ ~IsNaN(b) /\ a[1] * b[2] <= b[1] * a[2]

\* Series.fillna(0)
fillna(x) == IF IsNaN(x) THEN Zero ELSE x

\* Series.clip(lower=0): NaN stays NaN
clip_lower(x) == IF RLess(x, Zero) THEN Zero ELSE x

\* Series.clip(upper=1.0): NaN stays NaN
clip_upper(x) == IF RLess(One, x) THEN One ELSE x

----------------------------------------------------------------------------
(* Timestamps *)

NaT == <<>>

IsNaT(t) == t = NaT

At(t) == <<t>>

\* (a - b).dt.total_seconds(): NaN when either timestamp is NaT
total_seconds(a, b) ==
    IF IsNaT(a) \/ IsNaT(b) THEN NaN ELSE Num(a[1] - b[1])

\* Series.dt.floor('h')
floor_hour(t) ==
    IF IsNaT(t) THEN NaT ELSE At(t[1] - (t[1] % SecondsPerHour))

\* Series.dt.floor('D')
floor_day(t) ==
    IF IsNaT(t) THEN NaT ELSE At(t[1] - (t[1] % SecondsPerDay))

\* week_start as dt.floor('7D'): multiples of seven days since the epoch
week_start_floor_7d(t) ==
    IF IsNaT(t) THEN NaT
    ELSE At(t[1] - (t[1] % (DaysPerWeek * SecondsPerDay)))

\* Series.dt.to_period('W').dt.start_time: the Monday 00:00 of the week
week_start(t) ==
    IF IsNaT(t) THEN NaT
    ELSE LET day == t[1] \div SecondsPerDay
             weekday == (day + EpochWeekday) % DaysPerWeek
         IN  At((day - weekday) * SecondsPerDay)

----------------------------------------------------------------------------
(* SlurmDataProcessor._enrich_job_data and its helpers, one row at a time *)

\* df.dropna(subset=['Submit'])
dropna_submit(df) == SelectSeq(df, LAMBDA r : ~IsNaT(r.Submit))

\* calculate_times without the clip of lines 120-121
calculate_times_unclipped(r) ==
    LET queue_time_seconds == total_seconds(r.Start, r.Submit)
        run_time_seconds == total_seconds(r.End, r.Start)
    IN  r @@ [queue_time_seconds |-> queue_time_seconds,
              run_time_seconds |-> run_time_seconds,
              queue_time_hours |->
                  fillna(RDiv(queue_time_seconds, Num(SecondsPerHour))),
              run_time_hours |->
                  fillna(RDiv(run_time_seconds, Num(SecondsPerHour)))]

\* calculate_times with the run time counted from the submission
calculate_times_run_from_submit(r) ==
    LET queue_time_seconds == total_seconds(r.Start, r.Submit)
        run_time_seconds == total_seconds(r.End, r.Submit)
        queue_hours == RDiv(queue_time_seconds, Num(SecondsPerHour))
        run_hours == RDiv(run_time_seconds, Num(SecondsPerHour))
    IN  r @@ [queue_time_seconds |-> queue_time_seconds,
              run_time_seconds |-> run_time_seconds,
              queue_time_hours |-> fillna(clip_lower(queue_hours)),
              run_time_hours |-> fillna(clip_lower(run_hours))]

calculate_times(r) ==
    LET queue_time_seconds == total_seconds(r.Start, r.Submit)
        run_time_seconds == total_seconds(r.End, r.Start)
        queue_hours == RDiv(queue_time_seconds, Num(SecondsPerHour))
        run_hours == RDiv(run_time_seconds, Num(SecondsPerHour))
    IN  r @@ [queue_time_seconds |-> queue_time_seconds,
              run_time_seconds |-> run_time_seconds,
              queue_time_hours |-> fillna(clip_lower(queue_hours)),
              run_time_hours |-> fillna(clip_lower(run_hours))]

\* pd.to_numeric(col, errors='coerce').fillna(0) followed by clip(lower=0)
clean_numeric(x) == clip_lower(fillna(x))

\* calculate_resource_usage with the requested CPUs in the place of the
\* allocated ones
calculate_resource_usage_requested_cpus(r) ==
    r @@ [used_cpu_hours |->
              clean_numeric(RDiv(r.CPUTimeRAW, Num(SecondsPerHour))),
          allocated_cpu_hours |->
              clean_numeric(RMul(r.ReqCPUS, r.run_time_hours)),
          req_mem_gb |-> clean_numeric(r.ReqMem),
          max_rss_gb |-> clean_numeric(r.MaxRSS),
          gpu_hours |-> clean_numeric(RMul(r.GPUCount, r.run_time_hours))]

calculate_resource_usage(r) ==
    r @@ [used_cpu_hours |->
              clean_numeric(RDiv(r.CPUTimeRAW, Num(SecondsPerHour))),
          allocated_cpu_hours |->
              clean_numeric(RMul(r.AllocCPUS, r.run_time_hours)),
          req_mem_gb |-> clean_numeric(r.ReqMem),
          max_rss_gb |-> clean_numeric(r.MaxRSS),
          gpu_hours |-> clean_numeric(RMul(r.GPUCount, r.run_time_hours))]

\* efficiency without the clip of lines 181 and 189
efficiency_unclipped(used, total) ==
    IF RLess(Zero, total) THEN RDiv(used, total) ELSE Zero

\* np.where(total > 0, used / total, 0) followed by clip(upper=1.0)
efficiency(used, total) ==
    clip_upper(IF RLess(Zero, total) THEN RDiv(used, total) ELSE Zero)

calculate_efficiency_metrics(r) ==
    r @@ [cpu_efficiency |->
              efficiency(r.used_cpu_hours, r.allocated_cpu_hours),
          memory_efficiency |-> efficiency(r.max_rss_gb, r.req_mem_gb)]

\* lines 84-87: a row whose Submit is missing takes its Start as Submit
submit_fallback(r) ==
    IF IsNaT(r.Submit) THEN [r EXCEPT !.Submit = r.Start] ELSE r

\* pd.to_datetime(col, errors='coerce') of a datetime64 column
to_datetime(t) == t

\* time_columns with the day bucket taken from the start time
time_columns_day_of_start(r) ==
    LET submit_time == to_datetime(r.Submit)
    IN  r @@ [submit_time |-> submit_time,
              start_time |-> to_datetime(r.Start),
              end_time |-> to_datetime(r.End),
              submit_hour |-> floor_hour(submit_time),
              submit_day |-> floor_day(to_datetime(r.Start)),
              submit_week |-> week_start(submit_time)]

\* lines 90-97: the parsed times and the three bucket columns
time_columns(r) ==
    LET submit_time == to_datetime(r.Submit)
    IN  r @@ [submit_time |-> submit_time,
              start_time |-> to_datetime(r.Start),
              end_time |-> to_datetime(r.End),
              submit_hour |-> floor_hour(submit_time),
              submit_day |-> floor_day(submit_time),
              submit_week |-> week_start(submit_time)]

enrich_row(r) ==
    time_columns(submit_fallback(
        calculate_efficiency_metrics(calculate_resource_usage(
            calculate_times(r)))))

enrich_job_data(df) ==
    LET kept == dropna_submit(df)
    IN  [i \in 1..Len(kept) |-> enrich_row(kept[i])]

----------------------------------------------------------------------------
(* SlurmDataProcessor._aggregate_by_interval *)

Intervals == {"hour", "day", "week"}

time_col_map ==
    [hour |-> "submit_hour", day |-> "submit_day", week |-> "submit_week"]

\* the ascending sequence of the elements of a finite set of integers
RECURSIVE SortedSeq(_)
SortedSeq(S) ==
    IF S = {} THEN <<>>
    ELSE LET m == CHOOSE x \in S : \A y \in S : x <= y
         IN  <<m>> \o SortedSeq(S \ {m})

\* df.groupby(time_col): the keys of the groups, NaT keys dropped, sorted
group_keys(df, time_col) ==
    SortedSeq({df[i][time_col][1] :
                   i \in {j \in 1..Len(df) : ~IsNaT(df[j][time_col])}})

group_rows(df, time_col, key) ==
    SelectSeq(df, LAMBDA r : r[time_col] = At(key))

\* GroupBy 'sum': NaN is skipped, the sum of no value is 0
RECURSIVE agg_sum(_, _)
agg_sum(rows, col) ==
    IF rows = <<>> THEN Zero
    ELSE LET x == Head(rows)[col]
             rest == agg_sum(Tail(rows), col)
         IN  IF IsNaN(x) THEN rest ELSE RAdd(x, rest)

\* GroupBy 'count': the number of values that are not null
agg_count(rows, col) ==
    Num(Cardinality({i \in 1..Len(rows) : ~IsNaN(rows[i][col])}))

\* GroupBy 'mean' as 'sum': the total where the mean belongs
agg_mean_as_sum(rows, col) == agg_sum(rows, col)

\* GroupBy 'mean': NaN is skipped, the mean of no value is NaN
agg_mean(rows, col) ==
    LET n == agg_count(rows, col)
    IN  IF n = Zero THEN NaN ELSE RDiv(agg_sum(rows, col), n)

\* agg_funcs without the two mean efficiency columns
agg_funcs_without_efficiency(rows) ==
    [ReqCPUS |-> agg_sum(rows, "ReqCPUS"),
     AllocCPUS |-> agg_sum(rows, "AllocCPUS"),
     used_cpu_hours |-> agg_sum(rows, "used_cpu_hours"),
     allocated_cpu_hours |-> agg_sum(rows, "allocated_cpu_hours"),
     req_mem_gb |-> agg_sum(rows, "req_mem_gb"),
     max_rss_gb |-> agg_sum(rows, "max_rss_gb"),
     GPUCount |-> agg_sum(rows, "GPUCount"),
     gpu_hours |-> agg_sum(rows, "gpu_hours"),
     queue_time_hours |-> agg_mean(rows, "queue_time_hours"),
     run_time_hours |-> agg_mean(rows, "run_time_hours"),
     JobID |-> agg_count(rows, "JobID")]

\* grouped.agg(agg_funcs): one value per aggregated column
agg_funcs(rows) ==
    [ReqCPUS |-> agg_sum(rows, "ReqCPUS"),
     AllocCPUS |-> agg_sum(rows, "AllocCPUS"),
     used_cpu_hours |-> agg_sum(rows, "used_cpu_hours"),
     allocated_cpu_hours |-> agg_sum(rows, "allocated_cpu_hours"),
     req_mem_gb |-> agg_sum(rows, "req_mem_gb"),
     max_rss_gb |-> agg_sum(rows, "max_rss_gb"),
     GPUCount |-> agg_sum(rows, "GPUCount"),
     gpu_hours |-> agg_sum(rows, "gpu_hours"),
     queue_time_hours |-> agg_mean(rows, "queue_time_hours"),
     run_time_hours |-> agg_mean(rows, "run_time_hours"),
     cpu_efficiency |-> agg_mean(rows, "cpu_efficiency"),
     memory_efficiency |-> agg_mean(rows, "memory_efficiency"),
     JobID |-> agg_count(rows, "JobID")]

column_mapping ==
    [ReqCPUS |-> "req_cpus",
     AllocCPUS |-> "alloc_cpus",
     used_cpu_hours |-> "used_cpus",
     req_mem_gb |-> "req_mem",
     max_rss_gb |-> "max_rss",
     GPUCount |-> "alloc_gpus",
     gpu_hours |-> "used_gpus",
     queue_time_hours |-> "queue_time",
     run_time_hours |-> "run_time",
     JobID |-> "job_count"]

\* result.rename(columns=column_mapping): unmapped columns keep their name
rename(cols) ==
    LET new(c) == IF c \in DOMAIN column_mapping THEN column_mapping[c] ELSE c
    IN  [n \in {new(c) : c \in DOMAIN cols} |->
            cols[CHOOSE c \in DOMAIN cols : new(c) = n]]

expected_columns ==
    {"req_cpus", "alloc_cpus", "used_cpus", "req_mem", "max_rss", "used_mem",
     "alloc_gpus", "used_gpus", "queue_time", "run_time", "job_count"}

\* the table handed back as it is after the renaming, lines 269-285 skipped
complete_columns_skipped(cols) == cols

\* lines 269-285: the used_mem alias, a 0 for every expected column that is
\* missing, and fillna(0)
complete_columns(cols) ==
    LET aliased == [c \in (DOMAIN cols) \cup {"used_mem"} |->
                       IF c = "used_mem" THEN cols["max_rss"] ELSE cols[c]]
        ensured == [c \in (DOMAIN aliased) \cup expected_columns |->
                       IF c \in DOMAIN aliased THEN aliased[c] ELSE Zero]
    IN  [c \in DOMAIN ensured |-> fillna(ensured[c])]

\* sort_index(ascending=False)
RECURSIVE sort_index_descending(_)
sort_index_descending(rows) ==
    IF rows = <<>> THEN <<>>
    ELSE LET i == CHOOSE k \in 1..Len(rows) :
                      \A j \in 1..Len(rows) :
                          /\ rows[k].index[1] >= rows[j].index[1]
                          /\ (rows[k].index = rows[j].index => k <= j)
             rest == [j \in 1..(Len(rows) - 1) |->
                         IF j < i THEN rows[j] ELSE rows[j + 1]]
         IN  <<rows[i]>> \o sort_index_descending(rest)

\* result.sort_index(): ascending by bucket start
RECURSIVE sort_index(_)
sort_index(rows) ==
    IF rows = <<>> THEN <<>>
    ELSE LET i == CHOOSE k \in 1..Len(rows) :
                      \A j \in 1..Len(rows) :
                          /\ rows[k].index[1] <= rows[j].index[1]
                          /\ (rows[k].index = rows[j].index => k <= j)
             rest == [j \in 1..(Len(rows) - 1) |->
                         IF j < i THEN rows[j] ELSE rows[j + 1]]
         IN  <<rows[i]>> \o sort_index(rest)

\* what a call hands back to its caller: a table, or an exception
Returned(rows) == [status |-> "returned", error |-> "", rows |-> rows]

Raised(error) == [status |-> "raised", error |-> error, rows |-> <<>>]

\* pd.DataFrame(): no row, no column
EmptyFrame == Returned(<<>>)

\* lines 219-288: group by the bucket column, aggregate, rename, complete
\* and sort
aggregate_groups(df, time_col) ==
    LET keys == group_keys(df, time_col)
        result == [i \in 1..Len(keys) |->
                      [index |-> At(keys[i]),
                       cols |-> complete_columns(rename(agg_funcs(
                                    group_rows(df, time_col, keys[i]))))]]
    IN  sort_index(result)

\* aggregate_by_interval with time_col_map.get(interval, 'submit_day')
aggregate_by_interval_default_day(df, interval) ==
    IF interval \notin DOMAIN time_col_map
    THEN Returned(aggregate_groups(df, "submit_day"))
    ELSE Returned(aggregate_groups(df, time_col_map[interval]))

\* the columns of the raw frame that grouped.agg(agg_funcs) reads; the
\* others of agg_funcs are added by enrich_job_data
aggregated_raw_columns == {"ReqCPUS", "JobID"}

\* the check of line 216 cannot fail: enrich_job_data adds the three bucket
\* columns to every frame.  grouped.agg raises KeyError for a column of
\* agg_funcs that the frame lacks.
aggregate_by_interval(df, interval) ==
    IF interval \notin DOMAIN time_col_map
    THEN Raised("ValueError")
    ELSE IF ~(aggregated_raw_columns \subseteq DOMAIN df[1])
    THEN Raised("KeyError")
    ELSE Returned(aggregate_groups(df, time_col_map[interval]))

----------------------------------------------------------------------------
(* SlurmDataProcessor.process_data *)

\* the columns of the raw frame that _enrich_job_data and its helpers read
\* with df[...]: a frame that lacks one raises KeyError, with or without rows
enriched_raw_columns ==
    {"Submit", "Start", "End", "CPUTimeRAW", "AllocCPUS", "ReqMem", "MaxRSS",
     "GPUCount"}

\* process_data with an empty table for a frame that lacks a column
process_data_missing_column_empty(raw_data, interval) ==
    IF raw_data = <<>> THEN [df |-> <<>>, out |-> EmptyFrame]
    ELSE IF ~(enriched_raw_columns \subseteq DOMAIN raw_data[1])
    THEN [df |-> <<>>, out |-> EmptyFrame]
    ELSE LET df == enrich_job_data(raw_data)
         IN  [df |-> df,
              out |-> IF df = <<>> THEN EmptyFrame
                      ELSE aggregate_by_interval(df, interval)]

\* process_data without lines 45-46: the empty batch is refused
process_data_empty_raises(raw_data, interval) ==
    IF raw_data = <<>> THEN [df |-> <<>>, out |-> Raised("ValueError")]
    ELSE IF ~(enriched_raw_columns \subseteq DOMAIN raw_data[1])
    THEN [df |-> <<>>, out |-> Raised("KeyError")]
    ELSE LET df == enrich_job_data(raw_data)
         IN  [df |-> df,
              out |-> IF df = <<>> THEN EmptyFrame
                      ELSE aggregate_by_interval(df, interval)]

\* process_data with an exception in the place of the return of line 55
process_data_all_dropped_raises(raw_data, interval) ==
    IF raw_data = <<>> THEN [df |-> <<>>, out |-> EmptyFrame]
    ELSE IF ~(enriched_raw_columns \subseteq DOMAIN raw_data[1])
    THEN [df |-> <<>>, out |-> Raised("KeyError")]
    ELSE LET df == enrich_job_data(raw_data)
         IN  [df |-> df,
              out |-> IF df = <<>> THEN Raised("EmptyInput")
                      ELSE aggregate_by_interval(df, interval)]

\* the frame df of line 52 (empty when the call returns before it) and the
\* outcome of the call
process_data(raw_data, interval) ==
    IF raw_data = <<>> THEN [df |-> <<>>, out |-> EmptyFrame]
    ELSE IF ~(enriched_raw_columns \subseteq DOMAIN raw_data[1])
    THEN [df |-> <<>>, out |-> Raised("KeyError")]
    ELSE LET df == enrich_job_data(raw_data)
         IN  [df |-> df,
              out |-> IF df = <<>> THEN EmptyFrame
                      ELSE aggregate_by_interval(df, interval)]

\* the columns of a DataFrame
Columns(rows) == IF rows = <<>> THEN {} ELSE DOMAIN rows[1].cols

----------------------------------------------------------------------------
(* SlurmDataProcessor.calculate_summary_stats *)

RECURSIVE column_sum(_, _)
column_sum(rows, col) ==
    IF rows = <<>> THEN Zero
    ELSE LET x == Head(rows).cols[col]
             rest == column_sum(Tail(rows), col)
         IN  IF IsNaN(x) THEN rest ELSE RAdd(x, rest)

\* the mean of a column with every row weighted by its job_count
RECURSIVE column_weighted_sum(_, _)
column_weighted_sum(rows, col) ==
    IF rows = <<>> THEN Zero
    ELSE RAdd(RMul(Head(rows).cols[col], Head(rows).cols["job_count"]),
              column_weighted_sum(Tail(rows), col))

column_mean_weighted_by_jobs(rows, col) ==
    LET jobs == column_sum(rows, "job_count")
    IN  IF jobs = Zero THEN NaN
        ELSE RDiv(column_weighted_sum(rows, col), jobs)

column_mean(rows, col) ==
    LET n == Cardinality({i \in 1..Len(rows) : ~IsNaN(rows[i].cols[col])})
    IN  IF n = 0 THEN NaN ELSE RDiv(column_sum(rows, col), Num(n))

\* lines 321-330: used / total when total > 0, else 0.0
overall_efficiency(used, total) ==
    IF RLess(Zero, total) THEN RDiv(used, total) ELSE Zero

\* calculate_summary_stats with the mean of the memory_efficiency column as
\* overall_memory_efficiency
calculate_summary_stats_mean_of_ratios(rows) ==
    IF rows = <<>> THEN [dict |-> <<>>, date_range |-> <<>>]
    ELSE LET total_cpu_hours_allocated == column_sum(rows, "alloc_cpus")
             total_cpu_hours_used == column_sum(rows, "used_cpus")
             starts == {rows[i].index[1] : i \in 1..Len(rows)}
         IN  [dict |->
                 [total_jobs |-> column_sum(rows, "job_count"),
                  total_cpu_hours_requested |-> column_sum(rows, "req_cpus"),
                  total_cpu_hours_allocated |-> total_cpu_hours_allocated,
                  total_cpu_hours_used |-> total_cpu_hours_used,
                  total_memory_requested_gb |-> column_sum(rows, "req_mem"),
                  total_memory_used_gb |-> column_sum(rows, "max_rss"),
                  total_gpu_hours |-> column_sum(rows, "used_gpus"),
                  avg_queue_time_hours |-> column_mean(rows, "queue_time"),
                  avg_run_time_hours |-> column_mean(rows, "run_time"),
                  overall_cpu_efficiency |->
                      overall_efficiency(total_cpu_hours_used,
                                         total_cpu_hours_allocated),
                  overall_memory_efficiency |->
                      column_mean(rows, "memory_efficiency")],
              date_range |->
                 <<At(CHOOSE x \in starts : \A y \in starts : x <= y),
                   At(CHOOSE x \in starts : \A y \in starts : x >= y)>>]

\* the returned dict; the date_range entry holds the first and the last
\* bucket start (their isoformat text is not modelled)
calculate_summary_stats(rows) ==
    IF rows = <<>> THEN [dict |-> <<>>, date_range |-> <<>>]
    ELSE LET total_cpu_hours_allocated == column_sum(rows, "alloc_cpus")
             total_cpu_hours_used == column_sum(rows, "used_cpus")
             total_memory_requested_gb == column_sum(rows, "req_mem")
             total_memory_used_gb == column_sum(rows, "max_rss")
             starts == {rows[i].index[1] : i \in 1..Len(rows)}
         IN  [dict |->
                 [total_jobs |-> column_sum(rows, "job_count"),
                  total_cpu_hours_requested |-> column_sum(rows, "req_cpus"),
                  total_cpu_hours_allocated |-> total_cpu_hours_allocated,
                  total_cpu_hours_used |-> total_cpu_hours_used,
                  total_memory_requested_gb |-> total_memory_requested_gb,
                  total_memory_used_gb |-> total_memory_used_gb,
                  total_gpu_hours |-> column_sum(rows, "used_gpus"),
                  avg_queue_time_hours |-> column_mean(rows, "queue_time"),
                  avg_run_time_hours |-> column_mean(rows, "run_time"),
                  overall_cpu_efficiency |->
                      overall_efficiency(total_cpu_hours_used,
                                         total_cpu_hours_allocated),
                  overall_memory_efficiency |->
                      overall_efficiency(total_memory_used_gb,
                                         total_memory_requested_gb)],
              date_range |->
                 <<At(CHOOSE x \in starts : \A y \in starts : x <= y),
                   At(CHOOSE x \in starts : \A y \in starts : x >= y)>>]

----------------------------------------------------------------------------
(* SlurmDataProcessor.filter_data *)

\* start_date and end_date are a timestamp or None (NaT): a datetime is
\* always true in `if start_date:`.  The masks of lines 357, 359 and 363
\* keep the rows in their order; df['job_count'] raises KeyError on a frame
\* without that column, which the empty frame of process_data is.
filter_data(df, start_date, end_date, min_job_count) ==
    LET from_start == IF IsNaT(start_date) THEN df
                      ELSE SelectSeq(df, LAMBDA r :
                                         r.index[1] >= start_date[1])
        to_end == IF IsNaT(end_date) THEN from_start
                  ELSE SelectSeq(from_start, LAMBDA r :
                                     r.index[1] <= end_date[1])
    IN  IF min_job_count > 0
        THEN IF "job_count" \notin Columns(df) THEN Raised("KeyError")
             ELSE Returned(SelectSeq(to_end, LAMBDA r :
                      RLeq(Num(min_job_count), r.cols["job_count"])))
        ELSE Returned(to_end)

----------------------------------------------------------------------------
(* The input batches *)

\* 2024-01-01, a Monday, in days since the epoch: 54 years, 13 of them leap
Monday == 54 * 365 + 13

\* the instant h:m of the day that is `day` days after that Monday
Clock(day, h, m) ==
    At((Monday + day) * SecondsPerDay + h * SecondsPerHour + m * 60)

Times(submit, start, end) == [Submit |-> submit, Start |-> start, End |-> end]

Resources(req_cpus, alloc_cpus, cpu_time, req_mem, max_rss, gpus) ==
    [ReqCPUS |-> req_cpus, AllocCPUS |-> alloc_cpus, CPUTimeRAW |-> cpu_time,
     ReqMem |-> req_mem, MaxRSS |-> max_rss, GPUCount |-> gpus]

\* Job records as the fetcher hands them over (JobID is added per batch)
RecordSamples ==
    { \* queued 30 min, ran 2 h on 2 CPUs, used 2 of 4 CPU-hours
      Times(Clock(0, 0, 30), Clock(0, 1, 0), Clock(0, 3, 0))
          @@ Resources(Num(2), Num(2), Num(2 * SecondsPerHour),
                       Num(4), Num(2), Num(1)),
      \* next hour of the same day; ran 30 min on 2 CPUs and reports 2 h
      \* of CPU-time
      Times(Clock(0, 1, 15), Clock(0, 1, 30), Clock(0, 2, 0))
          @@ Resources(Num(4), Num(2), Num(2 * SecondsPerHour),
                       Rat(1, 2), Rat(1, 4), Num(2)),
      \* next day; start before submit, end before start; negative numbers
      Times(Clock(1, 10, 0), Clock(1, 9, 0), Clock(1, 8, 0))
          @@ Resources(Num(-1), Num(-2), Num(-SecondsPerHour),
                       Num(-1), Num(-3), Num(-1)),
      \* next week; never started; nothing reported
      Times(Clock(7, 0, 0), NaT, NaT)
          @@ Resources(NaN, NaN, NaN, NaN, NaN, NaN),
      \* no submit time but a start time
      Times(NaT, Clock(0, 0, 45), Clock(0, 1, 45))
          @@ Resources(Num(1), Num(1), Num(SecondsPerHour),
                       Num(1), Num(1), Num(0)),
      \* Sunday night of the week before, started on Monday; no CPU
      \* allocated although CPU-time is reported
      Times(Clock(-1, 23, 30), Clock(0, 0, 10), Clock(0, 2, 10))
          @@ Resources(Num(1), Num(0), Num(SecondsPerHour),
                       Num(0), Num(1), Num(1)) }

\* a batch: its rows in the order of arrival, JobID the row's number
Batch(samples) ==
    [i \in 1..Len(samples) |-> samples[i] @@ [JobID |-> Num(i)]]

\* a bound on the rows of a batch that lacks a column
MaxLacking == 2

\* the columns of the raw frame that process_data reads
required_columns == enriched_raw_columns \cup aggregated_raw_columns

\* the batch without the column col
lacking(batch, col) ==
    [i \in 1..Len(batch) |->
        [c \in (DOMAIN batch[i]) \ {col} |-> batch[i][c]]]

\* the batches of at least one row that lack one required column
LackingBatches ==
    {lacking(Batch(s), col) :
         s \in UNION {[1..n -> RecordSamples] : n \in 1..MaxLacking},
         col \in required_columns}

Batches ==
    {Batch(s) : s \in UNION {[1..n -> RecordSamples] : n \in 0..MaxJobs}}

----------------------------------------------------------------------------
\* Single records: every combination of the three timestamps, every
\* combination of the CPU inputs and every combination of the memory inputs
TimeValues == {NaT, Clock(0, 0, 30), Clock(0, 2, 0), Clock(1, 1, 0)}

CountValues == {NaN, Num(-1), Num(0), Num(2)}

CpuTimeValues ==
    {NaN, Num(-SecondsPerHour), Num(0), Num(SecondsPerHour),
     Num(5 * SecondsPerHour)}

MemValues == {NaN, Num(-1), Num(0), Rat(1, 2), Num(2)}

RecordSpace ==
    {Times(a, b, c) @@ Resources(Num(1), Num(2), Num(SecondsPerHour),
                                 Num(2), Num(1), n) :
         a \in TimeValues, b \in TimeValues, c \in TimeValues,
         n \in {NaN, Num(1)}}
    \cup
    {Times(Clock(0, 0, 30), Clock(0, 0, 30), c)
         @@ Resources(Num(1), n, t, Num(2), Num(1), Num(1)) :
         c \in TimeValues, n \in CountValues, t \in CpuTimeValues}
    \cup
    {Times(Clock(0, 0, 30), Clock(0, 0, 30), Clock(0, 2, 0))
         @@ Resources(Num(1), Num(1), Num(0), q, m, Num(0)) :
         q \in MemValues, m \in MemValues}

---------------------------------------------------------------------------------------------------------------------------------------------------
(* The state machine: a caller that holds one batch of job records calls   *)
(* the processor.  raw is the batch, last_interval the granularity of the  *)
(* last process_data call, enriched the frame df that call built, returned *)
(* what the call handed back, stats the dict calculate_summary_stats       *)
(* returned for that table (NoStats until it is called on it).             *)

\* the granularities a caller asks for: the supported ones and another
Granularities == Intervals \cup {"month"}

NotCalled == [status |-> "notcalled", error |-> "", rows |-> <<>>]

NoStats == [called |-> FALSE, dict |-> <<>>, date_range |-> <<>>]

\* filter_data has not been called on the table
NotFiltered == [called |-> FALSE]

NothingCalled ==
    /\ last_interval = "none"
    /\ enriched = <<>>
    /\ returned = NotCalled
    /\ stats = NoStats
    /\ filtered = NotFiltered

\* no invocation of the command line: the processor is called directly
NotStarted == [pc |-> "notstarted"]

Init == raw \in Batches /\ NothingCalled /\ cli = NotStarted

InitRecord ==
    /\ raw \in {Batch(<<r>>) : r \in RecordSpace}
    /\ NothingCalled
    /\ cli = NotStarted

\* processor.process_data(raw_data, interval)
ProcessData(i) ==
    LET call == process_data(raw, i)
    IN  /\ last_interval' = i
        /\ enriched' = call.df
        /\ returned' = call.out
        /\ stats' = NoStats
        /\ filtered' = NotFiltered
        /\ UNCHANGED <<raw, cli>>

\* processor.calculate_summary_stats(df) on the table process_data returned
CalculateSummaryStats ==
    /\ returned.status = "returned"
    /\ stats' = [called |-> TRUE] @@ calculate_summary_stats(returned.rows)
    /\ UNCHANGED <<raw, last_interval, enriched, returned, cli, filtered>>

Next ==
    \/ \E i \in Granularities : ProcessData(i)
    \/ CalculateSummaryStats

Spec == Init /\ [][Next]_vars

\* the same machine started on every batch of one record of RecordSpace
SpecRecord == InitRecord /\ [][Next]_vars

\* a batch that lacks one required column
InitColumns == raw \in LackingBatches /\ NothingCalled /\ cli = NotStarted

SpecColumns == InitColumns /\ [][Next]_vars

\* a bound on the rows of a batch whose table is filtered
MaxFiltered == 2

\* the dates a caller filters with: none, the start of an hour bucket and
\* the start of a day bucket of the samples
FilterDates == {NaT, Clock(0, 1, 0), Clock(1, 0, 0)}

MinJobCounts == {0, 1, 2}

InitFilter ==
    /\ raw \in {Batch(s) :
                   s \in UNION {[1..n -> RecordSamples] :
                                    n \in 0..MaxFiltered}}
    /\ NothingCalled
    /\ cli = NotStarted

\* processor.filter_data(df, start_date, end_date, min_job_count) on the
\* table process_data returned
FilterData(start_date, end_date, min_job_count) ==
    /\ returned.status = "returned"
    /\ filtered' = [called |-> TRUE, start_date |-> start_date,
                    end_date |-> end_date,
                    min_job_count |-> min_job_count,
                    out |-> filter_data(returned.rows, start_date,
                                        end_date, min_job_count)]
    /\ UNCHANGED <<raw, last_interval, enriched, returned, stats, cli>>

NextFilter ==
    \/ \E i \in Intervals : ProcessData(i)
    \/ \E start_date \in FilterDates, end_date \in FilterDates,
          min_job_count \in MinJobCounts :
           FilterData(start_date, end_date, min_job_count)

SpecFilter == InitFilter /\ [][NextFilter]_vars

----------------------------------------------------------------------------
(* slurm_plot.cli.main: one invocation of the command line.  cli.pc is the *)
(* statement main is at; the batch fetched is raw, the table processed is  *)
(* returned.                                                               *)

\* timedelta(days=7), line 183
DefaultDays == 7

\* datetime.now() of line 181
Now == Clock(1, 10, 0)

\* --start and --end as validate_date hands them over: a date or None (NaT)
StartValues == {NaT, Clock(0, 0, 0), Clock(1, 0, 0), Clock(2, 0, 0)}

EndValues == {NaT, Clock(0, 0, 0), Clock(1, 0, 0)}

\* lines 180-183: the defaults of end and start
default_end(end) == IF IsNaT(end) THEN Now ELSE end

default_start(start, end) ==
    IF IsNaT(start)
    THEN At(default_end(end)[1] - DefaultDays * SecondsPerDay)
    ELSE start

\* the test of line 185 with > in the place of >=
date_range_valid_or_empty(start, end) ==
    ~(default_start(start, end)[1] > default_end(end)[1])

\* line 185 lets the invocation go on when `start >= end` is false
date_range_valid(start, end) ==
    ~(default_start(start, end)[1] >= default_end(end)[1])

\* what the fetcher can hand over: no record, one record, or one record in
\* a frame that lacks a column
FetchedBatches ==
    {<<>>}
    \cup {Batch(<<s>>) : s \in RecordSamples}
    \cup {lacking(Batch(<<s>>), col) :
              s \in RecordSamples, col \in required_columns}

Arguments ==
    [start : StartValues, end : EndValues, dry_run : BOOLEAN,
     interval : Intervals]

Invocation(args) ==
    [pc |-> "load_config", args |-> args, fetched |-> 0, processed |-> 0,
     rendered |-> 0, plot_saved |-> FALSE, exit_status |-> 0,
     message |-> ""]

\* sys.exit(status) after the message, or the return of main (status 0)
Exit(status, message) ==
    [cli EXCEPT !.pc = "exited", !.exit_status = status,
                !.message = message]

InitMain ==
    /\ raw = <<>>
    /\ NothingCalled
    /\ cli \in {Invocation(args) : args \in Arguments}

\* line 178: load_config(config) returns or raises
MainLoadConfig ==
    /\ cli.pc = "load_config"
    /\ \E raised \in BOOLEAN :
           cli' = IF raised THEN Exit(1, "Error")
                  ELSE [cli EXCEPT !.pc = "check_dates"]
    /\ UNCHANGED <<raw, last_interval, enriched, returned, stats, filtered>>

\* lines 180-187
MainCheckDates ==
    /\ cli.pc = "check_dates"
    /\ cli' = IF date_range_valid(cli.args.start, cli.args.end)
              THEN [cli EXCEPT !.pc = "dry_run"]
              ELSE Exit(1, "Start date must be before end date")
    /\ UNCHANGED <<raw, last_interval, enriched, returned, stats, filtered>>

\* lines 200-202
MainDryRun ==
    /\ cli.pc = "dry_run"
    /\ cli' = IF cli.args.dry_run THEN Exit(0, "Dry run mode")
              ELSE [cli EXCEPT !.pc = "fetch"]
    /\ UNCHANGED <<raw, last_interval, enriched, returned, stats, filtered>>

\* lines 204-227: the fetcher raises or hands over a batch; an empty batch
\* ends the invocation
MainFetch ==
    /\ cli.pc = "fetch"
    /\ \/ /\ cli' = [Exit(1, "Error") EXCEPT !.fetched = @ + 1]
          /\ UNCHANGED raw
       \/ \E batch \in FetchedBatches :
              /\ raw' = batch
              /\ cli' = IF batch = <<>>
                        THEN [Exit(1, "No data found") EXCEPT
                                  !.fetched = @ + 1]
                        ELSE [cli EXCEPT !.pc = "process",
                                         !.fetched = @ + 1]
    /\ UNCHANGED <<last_interval, enriched, returned, stats, filtered>>

\* lines 236-240: process_data raises, or returns a table; an empty table
\* ends the invocation
MainProcess ==
    /\ cli.pc = "process"
    /\ LET call == process_data(raw, cli.args.interval)
       IN  /\ last_interval' = cli.args.interval
           /\ enriched' = call.df
           /\ returned' = call.out
           /\ cli' = IF call.out.status = "raised"
                     THEN [Exit(1, "Error") EXCEPT !.processed = @ + 1]
                     ELSE IF call.out.rows = <<>>
                     THEN [Exit(1, "No data to plot") EXCEPT
                               !.processed = @ + 1]
                     ELSE [cli EXCEPT !.pc = "render",
                                      !.processed = @ + 1]
    /\ UNCHANGED <<raw, stats, filtered>>

\* lines 246-255: plotter.create_plot raises or returns the path of the
\* plot; lines 258-265 print
MainRender ==
    /\ cli.pc = "render"
    /\ \E raised \in BOOLEAN :
           cli' = IF raised
                  THEN [Exit(1, "Error") EXCEPT !.rendered = @ + 1]
                  ELSE [Exit(0, "Plot saved") EXCEPT !.rendered = @ + 1,
                                                     !.plot_saved = TRUE]
    /\ UNCHANGED <<raw, last_interval, enriched, returned, stats, filtered>>

NextMain ==
    \/ MainLoadConfig
    \/ MainCheckDates
    \/ MainDryRun
    \/ MainFetch
    \/ MainProcess
    \/ MainRender

SpecMain == InitMain /\ [][NextMain]_vars

----------------------------------------------------------------------------
(* Vocabulary of the properties *)

PublicMetrics ==
    {"req_cpus", "alloc_cpus", "used_cpus", "req_mem", "max_rss", "used_mem",
     "alloc_gpus", "used_gpus", "queue_time", "run_time", "job_count"}

\* the last process_data call asked for a supported granularity and
\* returned a table
TableReturned ==
    last_interval \in Intervals /\ returned.status = "returned"

\* the start of the bucket of width `width` that contains the instant t
BucketStart(t, width) ==
    IF width = "hour" THEN floor_hour(t)
    ELSE IF width = "day" THEN floor_day(t)
    ELSE week_start(t)

\* the time that decides the bucket of a raw record when the start time
\* stands in for a missing submit time
BucketTime(r) == IF IsNaT(r.Submit) THEN r.Start ELSE r.Submit

RECURSIVE SumOver(_, _)
SumOver(df, col) ==
    IF df = <<>> THEN Zero ELSE RAdd(Head(df)[col], SumOver(Tail(df), col))

----------------------------------------------------------------------------
(* C1: the overall_cpu_efficiency of calculate_summary_stats is the sum of *)
(* the used CPU-time of the contributing records divided by the sum of     *)
(* their allocated CPU-time (AllocCPUS x run hours), 0 when that sum is 0. *)
(* The code divides by the sum of the AllocCPUS counts instead.            *)

CpuEfficiencyOfSums(df) ==
    LET used == SumOver(df, "used_cpu_hours")
        allocated == SumOver(df, "allocated_cpu_hours")
    IN  IF RLess(Zero, allocated) THEN RDiv(used, allocated) ELSE Zero

C1_OverallCpuEfficiencyIsRatioOfSums ==
    (TableReturned /\ stats.called /\ returned.rows # <<>>)
        => stats.dict.overall_cpu_efficiency = CpuEfficiencyOfSums(enriched)

----------------------------------------------------------------------------
(* C2: every row of a table returned by process_data has a value for each  *)
(* of the eleven public metrics, and none of them is NaN.                  *)

C2_AllMetricsPresent ==
    TableReturned =>
        \A i \in 1..Len(returned.rows) :
            /\ PublicMetrics \subseteq DOMAIN returned.rows[i].cols
            /\ \A c \in PublicMetrics \cap DOMAIN returned.rows[i].cols :
                   ~IsNaN(returned.rows[i].cols[c])

\* a row built from one record all of whose numeric inputs are NaN
C2_Witness ==
    /\ TableReturned
    /\ \E i \in 1..Len(returned.rows) :
           /\ returned.rows[i].cols["job_count"] = One
           /\ \E j \in 1..Len(enriched) :
                  /\ enriched[j][time_col_map[last_interval]]
                         = returned.rows[i].index
                  /\ IsNaN(enriched[j].ReqCPUS)
                  /\ IsNaN(enriched[j].MaxRSS)
           /\ returned.rows[i].cols["req_cpus"] = Zero
           /\ returned.rows[i].cols["used_mem"] = Zero

----------------------------------------------------------------------------
(* C3 as stated: a table returned by process_data has exactly the eleven   *)
(* public metric columns and no other.                                     *)

C3_ExactlyElevenColumns ==
    (TableReturned /\ returned.rows # <<>>)
        => Columns(returned.rows) = PublicMetrics

(* C3 amended: the table has the eleven public metric columns and exactly  *)
(* three more, allocated_cpu_hours, cpu_efficiency and memory_efficiency,  *)
(* which the aggregation computes and the renaming leaves alone.           *)

C3_ElevenColumnsAndThree ==
    (TableReturned /\ returned.rows # <<>>)
        => \A i \in 1..Len(returned.rows) :
               DOMAIN returned.rows[i].cols =
                   PublicMetrics \cup {"allocated_cpu_hours",
                                       "cpu_efficiency", "memory_efficiency"}

C3_Witness ==
    /\ TableReturned
    /\ Len(returned.rows) = 2
    /\ Cardinality(Columns(returned.rows)) = 14

----------------------------------------------------------------------------
(* C4 as stated: for every batch, empty or not, process_data with a        *)
(* granularity other than hour, day, week raises and returns no table.     *)

C4_UnsupportedAlwaysRaises ==
    (last_interval \notin Intervals /\ last_interval # "none")
        => returned.status = "raised"

(* C4 amended: process_data with an unsupported granularity raises exactly *)
(* when the batch has a record with a submit time; for an empty batch and  *)
(* for a batch whose records all lack the submit time it returns the empty *)
(* frame, the granularity unchecked.                                       *)

C4_UnsupportedRaisesOnUsableBatch ==
    (last_interval \notin Intervals /\ last_interval # "none")
        => IF \E i \in 1..Len(raw) : ~IsNaT(raw[i].Submit)
           THEN returned = Raised("ValueError")
           ELSE returned = EmptyFrame

C4_Witness ==
    /\ last_interval = "month"
    /\ Len(raw) = 2
    /\ IsNaT(raw[1].Submit)
    /\ returned.status = "raised"

----------------------------------------------------------------------------
(* C5: a record whose submit time is missing but whose start time is       *)
(* usable is kept and is counted in the bucket that contains its start     *)
(* time.  The code drops it in line 76, before the fallback of lines       *)
(* 84-87 can give it a submit time.                                        *)

\* the number of raw records whose bucket time lies in the bucket at `start`
RecordsIn(start) ==
    Cardinality({j \in 1..Len(raw) :
                     /\ ~IsNaT(BucketTime(raw[j]))
                     /\ BucketStart(BucketTime(raw[j]), last_interval)
                            = start})

C5_MissingSubmitFallsBackToStart ==
    last_interval \in Intervals =>
        \A i \in 1..Len(raw) :
            (IsNaT(raw[i].Submit) /\ ~IsNaT(raw[i].Start)) =>
                /\ returned.status = "returned"
                /\ \E k \in 1..Len(returned.rows) :
                       /\ returned.rows[k].index
                              = BucketStart(raw[i].Start, last_interval)
                       /\ returned.rows[k].cols["job_count"]
                              = Num(RecordsIn(returned.rows[k].index))

----------------------------------------------------------------------------
(* C6: for one batch the table at granularity week has at most as many     *)
(* rows as the table at day, which has at most as many as the table at     *)
(* hour.                                                                   *)

\* the number of rows process_data returns for the batch at granularity i:
\* of the table just returned when the last call asked for i
RowCount(i) ==
    IF last_interval = i THEN Len(returned.rows)
    ELSE Len(process_data(raw, i).out.rows)

C6_RowCountMonotone ==
    TableReturned =>
        /\ RowCount("week") <= RowCount("day")
        /\ RowCount("day") <= RowCount("hour")

\* one week, two days of it, three hours
C6_Witness ==
    /\ TableReturned
    /\ last_interval = "day"
    /\ RowCount("week") = 1
    /\ RowCount("day") = 2
    /\ RowCount("hour") = 3

----------------------------------------------------------------------------
(* C7: the queue duration and the run duration of every record are >= 0,   *)
(* whatever the order or the presence of its timestamps.                   *)

C7_DurationsNonNegative ==
    \A i \in 1..Len(enriched) :
        /\ RLeq(Zero, enriched[i].queue_time_hours)
        /\ RLeq(Zero, enriched[i].run_time_hours)

\* a record that started before its submission and has no end time
C7_Witness ==
    \E i \in 1..Len(enriched) :
        /\ RLess(enriched[i].queue_time_seconds, Zero)
        /\ IsNaN(enriched[i].run_time_seconds)
        /\ enriched[i].queue_time_hours = Zero
        /\ enriched[i].run_time_hours = Zero

----------------------------------------------------------------------------
(* C8: the CPU efficiency and the memory efficiency of every record lie in *)
(* [0, 1], whatever its numeric inputs.                                    *)

InUnitInterval(x) == RLeq(Zero, x) /\ RLeq(x, One)

C8_EfficiencyInUnitInterval ==
    \A i \in 1..Len(enriched) :
        /\ InUnitInterval(enriched[i].cpu_efficiency)
        /\ InUnitInterval(enriched[i].memory_efficiency)

\* a record that reports more CPU-time than it was allocated
C8_Witness ==
    \E i \in 1..Len(enriched) :
        /\ RLess(Zero, enriched[i].allocated_cpu_hours)
        /\ RLess(enriched[i].allocated_cpu_hours, enriched[i].used_cpu_hours)
        /\ enriched[i].cpu_efficiency = One

----------------------------------------------------------------------------
(* C9: no supported call raises, and the job_count of the rows sums to the *)
(* number of input records that have a usable bucket time, the submit time *)
(* or else the start time.  It fails with C5: the records that have only a *)
(* start time are dropped.                                                 *)

C9_EveryUsableRecordCountedOnce ==
    last_interval \in Intervals =>
        /\ returned.status = "returned"
        /\ column_sum(returned.rows, "job_count") =
               Num(Cardinality({i \in 1..Len(raw) :
                                    ~IsNaT(BucketTime(raw[i]))}))

----------------------------------------------------------------------------
(* C10: the table has one row for each bucket that contains a record, no   *)
(* other row, and its rows are in strictly ascending order of bucket       *)
(* start.                                                                  *)

NonEmptyBuckets ==
    {BucketStart(enriched[i].submit_time, last_interval) :
         i \in 1..Len(enriched)}

C10_OneRowPerBucketAscending ==
    TableReturned =>
        /\ {returned.rows[k].index : k \in 1..Len(returned.rows)}
               = NonEmptyBuckets
        /\ Len(returned.rows) = Cardinality(NonEmptyBuckets)
        /\ \A k \in 1..(Len(returned.rows) - 1) :
               returned.rows[k].index[1] < returned.rows[k + 1].index[1]

\* three records of two buckets that arrive latest first
C10_Witness ==
    /\ TableReturned
    /\ Len(enriched) = 3
    /\ Len(returned.rows) = 2
    /\ enriched[3].submit_time[1] < enriched[1].submit_time[1]

----------------------------------------------------------------------------
(* C11: the bucket of a record is the floor of its submit time: the start  *)
(* of the hour, the midnight of the day, or the Monday 00:00 of the week   *)
(* that contains it; so bucket start <= submit < bucket start + width,     *)
(* whatever the start and the end time are.                                *)

BucketWidth(width) ==
    IF width = "hour" THEN SecondsPerHour
    ELSE IF width = "day" THEN SecondsPerDay
    ELSE DaysPerWeek * SecondsPerDay

\* b is the start of an hour, of a day, of a week that begins on Monday
OnBoundary(b, width) ==
    /\ b % SecondsPerHour = 0
    /\ width \in {"day", "week"} => b % SecondsPerDay = 0
    /\ width = "week" =>
           ((b \div SecondsPerDay) + EpochWeekday) % DaysPerWeek = 0

C11_BucketIsFloorOfSubmit ==
    TableReturned =>
        \A j \in 1..Len(enriched) :
            LET b == enriched[j][time_col_map[last_interval]]
                submit == enriched[j].Submit[1]
            IN  /\ ~IsNaT(b)
                /\ OnBoundary(b[1], last_interval)
                /\ b[1] <= submit
                /\ submit < b[1] + BucketWidth(last_interval)
                /\ \E k \in 1..Len(returned.rows) : returned.rows[k].index = b

\* a record submitted on a Sunday that started in the week after: its week
\* bucket is the week of the submission
C11_Witness ==
    /\ TableReturned
    /\ last_interval = "week"
    /\ \E j \in 1..Len(enriched) :
           /\ ~IsNaT(enriched[j].Start)
           /\ week_start(enriched[j].Start) # enriched[j].submit_week
           /\ \E k \in 1..Len(returned.rows) :
                  /\ returned.rows[k].index = enriched[j].submit_week
                  /\ returned.rows[k].index[1] + 6 * SecondsPerDay
                         <= enriched[j].Submit[1]

----------------------------------------------------------------------------
(* C12: in every row, req_cpus, alloc_cpus, used_cpus, req_mem, max_rss,   *)
(* alloc_gpus and used_gpus are the sums of the quantity over the records  *)
(* of the bucket (a missing value adds nothing), queue_time and run_time   *)
(* are the sum of the durations divided by the number of records of the    *)
(* bucket, and job_count is that number.                                   *)

\* the enriched records whose bucket starts at `start`
BucketMembers(start) ==
    {j \in 1..Len(enriched) :
         enriched[j][time_col_map[last_interval]] = start}

RECURSIVE TotalOver(_, _)
TotalOver(members, col) ==
    IF members = {} THEN Zero
    ELSE LET j == CHOOSE m \in members : TRUE
         IN  RAdd(fillna(enriched[j][col]), TotalOver(members \ {j}, col))

SummedQuantity ==
    [req_cpus |-> "ReqCPUS", alloc_cpus |-> "AllocCPUS",
     used_cpus |-> "used_cpu_hours", req_mem |-> "req_mem_gb",
     max_rss |-> "max_rss_gb", alloc_gpus |-> "GPUCount",
     used_gpus |-> "gpu_hours"]

AveragedQuantity ==
    [queue_time |-> "queue_time_hours", run_time |-> "run_time_hours"]

C12_RowAggregatesItsBucket ==
    TableReturned =>
        \A k \in 1..Len(returned.rows) :
            LET row == returned.rows[k]
                members == BucketMembers(row.index)
                n == Num(Cardinality(members))
            IN  /\ members # {}
                /\ row.cols["job_count"] = n
                /\ \A m \in DOMAIN SummedQuantity :
                       row.cols[m] = TotalOver(members, SummedQuantity[m])
                /\ \A m \in DOMAIN AveragedQuantity :
                       row.cols[m] =
                           RDiv(TotalOver(members, AveragedQuantity[m]), n)

\* two records submitted on one day and one on the next: two daily rows
\* with job_count 2 and 1, the first with a mean that is not the sum
C12_Witness ==
    /\ TableReturned
    /\ last_interval = "day"
    /\ Len(returned.rows) = 2
    /\ returned.rows[2].index[1] = returned.rows[1].index[1] + SecondsPerDay
    /\ returned.rows[1].cols["job_count"] = Num(2)
    /\ returned.rows[2].cols["job_count"] = Num(1)
    /\ returned.rows[1].cols["run_time"]
           # TotalOver(BucketMembers(returned.rows[1].index),
                       "run_time_hours")

----------------------------------------------------------------------------
(* C14: an empty input is never an error: process_data on the empty batch  *)
(* returns the empty table at every supported granularity, and             *)
(* calculate_summary_stats on an empty table returns the empty result.     *)

C14_EmptyInputIsNotAnError ==
    /\ (raw = <<>> /\ last_interval \in Intervals) => returned = EmptyFrame
    /\ (stats.called /\ returned.rows = <<>>) =>
           (stats.dict = <<>> /\ stats.date_range = <<>>)

\* the empty batch processed by day, and the statistics of its table asked
C14_Witness ==
    /\ raw = <<>>
    /\ last_interval = "day"
    /\ returned = EmptyFrame
    /\ stats.called
    /\ stats.dict = <<>>

----------------------------------------------------------------------------
(* C15: a batch that is not empty but whose records all lack a submit time *)
(* makes process_data fail with a typed EmptyInput error instead of        *)
(* returning a table.  The code returns the empty table (lines 54-55).     *)

\* the batch has records and normalization drops every one of them
AllRecordsDropped ==
    raw # <<>> /\ \A j \in 1..Len(raw) : IsNaT(raw[j].Submit)

C15_AllDroppedRaisesEmptyInput ==
    (AllRecordsDropped /\ last_interval \in Intervals) =>
        (returned.status = "raised" /\ returned.error = "EmptyInput")

(* C15, as the code has it: for such a batch process_data returns the      *)
(* empty table, the value it returns for the empty batch, at every         *)
(* granularity asked, and raises nothing.                                  *)
C15_AllDroppedReturnsEmptyTable ==
    (AllRecordsDropped /\ last_interval # "none") => returned = EmptyFrame

C15_Witness ==
    /\ AllRecordsDropped
    /\ Len(raw) > 1
    /\ last_interval = "week"
    /\ returned = EmptyFrame

----------------------------------------------------------------------------
(* C16: the queue duration of a record is start - submit when both are     *)
(* present and start is not before submit, and 0 otherwise; the run        *)
(* duration is end - start under the same rule.  It holds of what          *)
(* _calculate_times gives for every raw record and of every record of the  *)
(* enriched frame; a missing start raises nothing.                         *)

\* the hours from `from` to `to`, 0 when one is missing or `to` is earlier
HoursBetween(from, to) ==
    IF IsNaT(from) \/ IsNaT(to) THEN Zero
    ELSE IF to[1] < from[1] THEN Zero
    ELSE Rat(to[1] - from[1], SecondsPerHour)

DurationsAsDefined(r, timed) ==
    /\ timed.queue_time_hours = HoursBetween(r.Submit, r.Start)
    /\ timed.run_time_hours = HoursBetween(r.Start, r.End)

C16_DurationsFromTimestamps ==
    /\ \A j \in 1..Len(raw) :
           enriched_raw_columns \subseteq DOMAIN raw[j] =>
               DurationsAsDefined(raw[j], calculate_times(raw[j]))
    /\ \A i \in 1..Len(enriched) :
           DurationsAsDefined(enriched[i], enriched[i])

\* a record with a submit time and an end time but no start time went
\* through process_data: both durations are 0 and a table came back
C16_Witness ==
    /\ TableReturned
    /\ \E i \in 1..Len(enriched) :
           /\ ~IsNaT(enriched[i].Submit)
           /\ IsNaT(enriched[i].Start)
           /\ ~IsNaT(enriched[i].End)
           /\ enriched[i].queue_time_hours = Zero
           /\ enriched[i].run_time_hours = Zero

----------------------------------------------------------------------------
(* C17: every one of the eleven metrics of every row of a returned table   *)
(* is >= 0, because a numeric input that is missing or negative counts as  *)
(* zero.  The code clamps the five derived columns of line 157 only:       *)
(* ReqCPUS, AllocCPUS and GPUCount are summed as they came.                *)

C17_AllMetricsNonNegative ==
    TableReturned =>
        \A k \in 1..Len(returned.rows) :
            \A m \in PublicMetrics : RLeq(Zero, returned.rows[k].cols[m])

----------------------------------------------------------------------------
(* C18: for a batch that is not empty and lacks a required column,         *)
(* process_data raises an error and returns no table.  The code returns    *)
(* the empty table when the column is ReqCPUS or JobID and every record    *)
(* lacks a submit time: lines 54-55 return before the column is read.      *)

LacksRequiredColumn ==
    raw # <<>> /\ ~(required_columns \subseteq DOMAIN raw[1])

C18_MissingColumnAlwaysRaises ==
    (LacksRequiredColumn /\ last_interval # "none") =>
        returned.status = "raised"

(* C18, as the code has it: such a batch never yields a row; process_data  *)
(* raises KeyError when a column that enrichment reads is absent, returns  *)
(* the empty table when only ReqCPUS or JobID is absent and every record   *)
(* lacks a submit time, and raises otherwise: ValueError for an            *)
(* unsupported granularity, KeyError for a supported one.                  *)
C18_MissingColumnRaisesOrEmpty ==
    (LacksRequiredColumn /\ last_interval # "none") =>
        /\ returned.rows = <<>>
        /\ IF ~(enriched_raw_columns \subseteq DOMAIN raw[1])
           THEN returned = Raised("KeyError")
           ELSE IF \A j \in 1..Len(raw) : IsNaT(raw[j].Submit)
           THEN returned = EmptyFrame
           ELSE IF last_interval \in Intervals
           THEN returned = Raised("KeyError")
           ELSE returned = Raised("ValueError")

\* two records with a submit time in a batch without the CPUTimeRAW column
C18_Witness ==
    /\ Len(raw) = 2
    /\ "CPUTimeRAW" \notin DOMAIN raw[1]
    /\ \A j \in 1..Len(raw) : ~IsNaT(raw[j].Submit)
    /\ last_interval = "day"
    /\ returned = Raised("KeyError")

----------------------------------------------------------------------------
(* C19: the overall_memory_efficiency of calculate_summary_stats is the    *)
(* sum of max_rss over the rows of the table divided by the sum of req_mem *)
(* over the rows, and 0 when the sum of req_mem is 0: a ratio of sums, not *)
(* the mean of the memory_efficiency of the rows.                          *)

RECURSIVE RowTotal(_, _)
RowTotal(ks, col) ==
    IF ks = {} THEN Zero
    ELSE LET k == CHOOSE x \in ks : TRUE
         IN  RAdd(returned.rows[k].cols[col], RowTotal(ks \ {k}, col))

MemoryEfficiencyOfSums ==
    LET ks == 1..Len(returned.rows)
        used == RowTotal(ks, "max_rss")
        requested == RowTotal(ks, "req_mem")
    IN  IF requested = Zero THEN Zero ELSE RDiv(used, requested)

C19_OverallMemoryEfficiencyIsRatioOfSums ==
    (stats.called /\ returned.rows # <<>>) =>
        stats.dict.overall_memory_efficiency = MemoryEfficiencyOfSums

\* a table of several rows whose ratio of sums is neither 0 nor the mean of
\* the memory_efficiency of its rows
C19_Witness ==
    /\ stats.called
    /\ Len(returned.rows) > 1
    /\ stats.dict.overall_memory_efficiency = MemoryEfficiencyOfSums
    /\ stats.dict.overall_memory_efficiency # Zero
    /\ stats.dict.overall_memory_efficiency
           # column_mean(returned.rows, "memory_efficiency")

----------------------------------------------------------------------------
(* C20: the overall_cpu_efficiency and the overall_memory_efficiency that  *)
(* calculate_summary_stats returns for a table of process_data lie in      *)
(* [0, 1].  The code divides the sums and clips nothing (lines 321-330).   *)

C20_OverallEfficienciesInUnitInterval ==
    (TableReturned /\ stats.called /\ returned.rows # <<>>) =>
        /\ InUnitInterval(stats.dict.overall_cpu_efficiency)
        /\ InUnitInterval(stats.dict.overall_memory_efficiency)

----------------------------------------------------------------------------
(* C21: for a table that is not empty, total_jobs is the sum of job_count  *)
(* over the rows, and avg_queue_time_hours and avg_run_time_hours are the  *)
(* sum of queue_time, of run_time, over the rows divided by the number of  *)
(* rows: every bucket weighs the same, whatever its job_count.             *)

RowMean(col) ==
    RDiv(RowTotal(1..Len(returned.rows), col), Num(Len(returned.rows)))

C21_TotalJobsAndUnweightedMeans ==
    (stats.called /\ returned.rows # <<>>) =>
        /\ stats.dict.total_jobs
               = RowTotal(1..Len(returned.rows), "job_count")
        /\ stats.dict.avg_queue_time_hours = RowMean("queue_time")
        /\ stats.dict.avg_run_time_hours = RowMean("run_time")

\* two buckets with different numbers of records: the mean over the
\* buckets is not the mean over the records
C21_Witness ==
    /\ stats.called
    /\ Len(returned.rows) = 2
    /\ returned.rows[1].cols["job_count"] # returned.rows[2].cols["job_count"]
    /\ stats.dict.total_jobs = Num(Len(enriched))
    /\ stats.dict.avg_queue_time_hours = RowMean("queue_time")
    /\ stats.dict.avg_queue_time_hours
           # RDiv(SumOver(enriched, "queue_time_hours"), Num(Len(enriched)))

----------------------------------------------------------------------------
(* C22: for every record, allocated CPU-time = AllocCPUS x run hours, used *)
(* CPU-time = CPUTimeRAW / 3600, and CPU efficiency = min(1, used /        *)
(* allocated) when allocated > 0 and 0 otherwise.  Stated of the inputs as *)
(* they come, it fails for a CPUTimeRAW or an AllocCPUS that is missing or *)
(* negative: lines 157-161 make the two CPU-times 0 then.                  *)

\* min(1, used / allocated) when allocated > 0, else 0
CpuEfficiencyOf(used, allocated) ==
    IF RLess(Zero, allocated)
    THEN (IF RLess(One, RDiv(used, allocated)) THEN One
          ELSE RDiv(used, allocated))
    ELSE Zero

C22_CpuTimesFromInputsAsGiven ==
    \A i \in 1..Len(enriched) :
        LET r == enriched[i]
        IN  /\ r.allocated_cpu_hours = RMul(r.AllocCPUS, r.run_time_hours)
            /\ r.used_cpu_hours = RDiv(r.CPUTimeRAW, Num(SecondsPerHour))
            /\ r.cpu_efficiency
                   = CpuEfficiencyOf(r.used_cpu_hours, r.allocated_cpu_hours)

\* a numeric input that is missing or negative counts as 0
CountedInput(x) == IF IsNaN(x) \/ RLess(x, Zero) THEN Zero ELSE x

(* C22, as the code has it: the same three equations with a missing or     *)
(* negative AllocCPUS or CPUTimeRAW counted as 0.                          *)
C22_CpuTimesFromCountedInputs ==
    \A i \in 1..Len(enriched) :
        LET r == enriched[i]
            allocated == RMul(CountedInput(r.AllocCPUS), r.run_time_hours)
            used == RDiv(CountedInput(r.CPUTimeRAW), Num(SecondsPerHour))
        IN  /\ r.allocated_cpu_hours = allocated
            /\ r.used_cpu_hours = used
            /\ r.cpu_efficiency = CpuEfficiencyOf(used, allocated)

\* a record that ran for a while on no allocated CPU and reports CPU-time:
\* its efficiency is 0
C22_Witness ==
    \E i \in 1..Len(enriched) :
        /\ enriched[i].AllocCPUS = Zero
        /\ RLess(Zero, enriched[i].run_time_hours)
        /\ RLess(Zero, enriched[i].used_cpu_hours)
        /\ enriched[i].allocated_cpu_hours = Zero
        /\ enriched[i].cpu_efficiency = Zero

----------------------------------------------------------------------------
(* C23: in every invocation of the command line, fetch, process and render *)
(* occur in that order and each at most once; render occurs only after a   *)
(* fetch that handed over a batch with records and a process step that     *)
(* returned a table with rows; with --dry-run or with start >= end none of *)
(* the three occurs; and an invocation that ends on start >= end, on an    *)
(* empty fetch, on an empty table or on a raised error exits with status 1 *)
(* and without a plot: render has not begun, except when the error is      *)
(* raised by the render step itself.                                       *)

Invoked == cli.pc # "notstarted"

\* start >= end after the defaults of lines 180-183
StartNotBeforeEnd ==
    LET end == IF IsNaT(cli.args.end) THEN Now ELSE cli.args.end
        start == IF IsNaT(cli.args.start)
                 THEN end[1] - DefaultDays * SecondsPerDay
                 ELSE cli.args.start[1]
    IN  start >= end[1]

FailureMessages ==
    {"Start date must be before end date", "No data found",
     "No data to plot", "Error"}

----------------------------------------------------------------------------
(* C25: filter_data returns exactly the rows of its input table whose      *)
(* bucket start is >= start_date and <= end_date (each when given, both    *)
(* inclusive) and whose job_count is >= min_job_count (when that is > 0),  *)
(* in their order and unchanged; with no filter the result is the input.   *)
(* On the empty table of process_data the code raises KeyError when        *)
(* min_job_count > 0 (line 363).                                           *)

\* row k of the table passes the filters of the last filter_data call
PassesFilters(k) ==
    LET row == returned.rows[k]
    IN  /\ IsNaT(filtered.start_date)
               \/ row.index[1] >= filtered.start_date[1]
        /\ IsNaT(filtered.end_date)
               \/ row.index[1] <= filtered.end_date[1]
        /\ filtered.min_job_count > 0 =>
               RLeq(Num(filtered.min_job_count), row.cols["job_count"])

\* f maps the rows of the result, in order, onto the rows that pass
C25_FilterReturnsMatchingRows ==
    filtered.called =>
        /\ filtered.out.status = "returned"
        /\ LET kept == {k \in 1..Len(returned.rows) : PassesFilters(k)}
               out == filtered.out.rows
           IN  /\ Len(out) = Cardinality(kept)
               /\ \E f \in [1..Len(out) -> kept] :
                      /\ \A a, b \in 1..Len(out) : a < b => f[a] < f[b]
                      /\ \A a \in 1..Len(out) : out[a] = returned.rows[f[a]]
        /\ (IsNaT(filtered.start_date) /\ IsNaT(filtered.end_date)
                /\ filtered.min_job_count <= 0) =>
               filtered.out = returned

====
